---- MODULE Spec2Model ----
(***************************************************************************)
(* A model of flock-llm-reduction/goodbooks/scripts/reduction_analyzer.py: *)
(* the JoinGraph, the DuckDB backend as a map from table names to bags of  *)
(* rows, the semi-join primitive, the cyclic-graph folder, selection       *)
(* pushdown, the Yannakakis reducer, the HAVING-aware estimator and the    *)
(* analyze_query pipeline.                                                 *)
(*                                                                         *)
(* A table name is a sequence of tokens: <<"a">> is table a, <<"a","b">>   *)
(* is the composite a_JOIN_b, and a trailing "_reduced" or "_filtered"     *)
(* token names the temporary table of a replacement.  A row is a sequence  *)
(* of values; the columns of base table a are <<"a",1>> .. <<"a",NCols>>,  *)
(* and SELECT * over a join lists the columns of the left table first.     *)
(***************************************************************************)
EXTENDS Integers, Sequences, FiniteSets, TLC

VARIABLES
    db,           \* the backend connection: table name -> bag of rows
    table_sizes,  \* QueryReducer.table_sizes: table name -> load-time count
    nodes,        \* JoinGraph.nodes
    edges,        \* JoinGraph.edges: sequence of [t1, t2, cond]
    aliases,      \* JoinGraph.aliases: table name -> alias
    pc,           \* position of the running operation
    bfs_order,    \* yannakakis_reduction: the BFS order
    parent_of,    \* yannakakis_reduction: parent in the BFS spanning tree
    ops,          \* the table replacements issued so far, in order
    query,        \* the query text handed to the running operation
    pending,      \* main: the query files still to be analysed
    failed,       \* main: the query files reported as failed
    reductions    \* the returned {table: (original, reduced, percent)}

vars == <<db, table_sizes, nodes, edges, aliases, pc, bfs_order, parent_of,
          ops, query, pending, failed,
          reductions>>

----------------------------------------------------------------------------
(* Bounds of the model. *)

MaxVal == 2        \* column values are 1..MaxVal
MaxRows == 2       \* rows of a loaded table in the reducer's inputs
MaxNodes == 3      \* tables of a join graph in the reducer's inputs
MaxKey == 3        \* column values are 1..MaxKey in the semi-join's inputs
MaxDup == 2        \* copies of one row in the semi-join's left table
MaxFoldNodes == 3  \* tables of a join graph in the folder's inputs
MaxFoldEdges == 3  \* edges of a join graph in the folder's inputs
MaxPushNodes == 2  \* tables of a join graph in the pushdown's inputs
MaxConjuncts == 2  \* conjuncts of a WHERE body
MaxCount == 2      \* the threshold N of a HAVING clause is 0..MaxCount
MaxQueries == 2    \* query files analysed by one run of main

NCols == 2         \* columns of every loaded table
TableNames == <<"a", "b", "c", "d", "e">>

Vals == 1..MaxVal
Cols == 1..NCols
BaseRows == [Cols -> Vals]
NoParent == <<"None">>
AliasL == <<"l">>
AliasR == <<"r">>

----------------------------------------------------------------------------
(* Bags of rows. *)

EmptyTable == [r \in {} |-> 0]

SetToTable(S) == [r \in S |-> 1]

RECURSIVE SumOver(_, _)
SumOver(t, S) ==
    IF S = {} THEN 0
    ELSE LET r == CHOOSE x \in S : TRUE
         IN  t[r] + SumOver(t, S \ {r})

\* SELECT COUNT(*) FROM t
Count(t) == SumOver(t, DOMAIN t)

\* SELECT DISTINCT *
Distinct(t) == [r \in DOMAIN t |-> 1]

\* SELECT * FROM t WHERE <row in S>
Filter(t, S) == [r \in DOMAIN t \cap S |-> t[r]]

DropTable(d, n) == [x \in DOMAIN d \ {n} |-> d[x]]

PutTable(d, n, t) == [x \in DOMAIN d \cup {n} |-> IF x = n THEN t ELSE d[x]]

----------------------------------------------------------------------------
(* Columns.  A column is <<base table, index>>; a table name lists the     *)
(* base tables whose columns it holds, in order.                           *)

IsTemp(n) == Len(n) > 0 /\ n[Len(n)] \in {"_reduced", "_filtered"}

Bases(n) == IF IsTemp(n) THEN SubSeq(n, 1, Len(n) - 1) ELSE n

HasCol(n, c) == \E i \in 1..Len(Bases(n)) : Bases(n)[i] = c[1]

ColPos(n, c) ==
    LET i == CHOOSE k \in 1..Len(Bases(n)) :
                 /\ Bases(n)[k] = c[1]
                 /\ \A j \in 1..(k - 1) : Bases(n)[j] # c[1]
    IN  (i - 1) * NCols + c[2]

Ref(t, c) == [t |-> t, c |-> c]

\* "t1.c1 = t2.c2"
Atom(a, b) == [a |-> a, b |-> b]

\* re.sub(rf'\b{name}\.', f'{to}.', cond)
SubPrefix(cond, name, to) ==
    { Atom(Ref(IF at.a.t = name THEN to ELSE at.a.t, at.a.c),
           Ref(IF at.b.t = name THEN to ELSE at.b.t, at.b.c)) : at \in cond }

\* one statement sent to the backend that creates or replaces a table
Op(kind, left, right, cond) ==
    [op |-> kind, left |-> left, right |-> right, cond |-> cond]

\* a query: FROM table alias, JOIN table alias ON atoms ..., the WHERE body
\* (a set of conjuncts, empty when there is no WHERE), the GROUP BY columns
\* and the HAVING clause
Query(from, joins, where, group, having) ==
    [from |-> from, joins |-> joins, where |-> where, group |-> group,
     having |-> having]

NoRef == Ref(<<>>, <<>>)

\* HAVING COUNT(*) >= n is kind "star", HAVING COUNT(DISTINCT col) >= n is
\* kind "distinct"
Having(kind, col, n) == [kind |-> kind, col |-> col, n |-> n]

NoHaving == Having("none", NoRef, 0)

NoQuery == Query(<<>>, <<>>, {}, <<>>, NoHaving)

Prefixes(cond) == {at.a.t : at \in cond} \cup {at.b.t : at \in cond}

----------------------------------------------------------------------------
(* JoinGraph *)

Edge(t1, t2, cond) == [t1 |-> t1, t2 |-> t2, cond |-> cond]

IsCyclic_Strict(ns, es) == ns # {} /\ Len(es) > Cardinality(ns)

is_cyclic(ns, es) ==
    IF ns = {} THEN FALSE ELSE Len(es) >= Cardinality(ns)

get_neighbors(es, table) ==
    {es[i].t2 : i \in {k \in 1..Len(es) : es[k].t1 = table}}
    \cup {es[i].t1 : i \in {k \in 1..Len(es) :
                              es[k].t1 # table /\ es[k].t2 = table}}

NoCond == {}

get_join_condition(es, table1, table2) ==
    LET hits == {k \in 1..Len(es) :
                    \/ es[k].t1 = table1 /\ es[k].t2 = table2
                    \/ es[k].t1 = table2 /\ es[k].t2 = table1}
    IN  IF hits = {} THEN NoCond
        ELSE es[CHOOSE k \in hits : \A j \in hits : k <= j].cond

Degree(es, t) == Cardinality(get_neighbors(es, t))

\* the candidates of max(degrees, key=degrees.get): iteration order of a set
\* of strings is not fixed, so any node of maximal degree may be returned
MaxDegree(es, S) == {t \in S : \A u \in S : Degree(es, u) <= Degree(es, t)}

----------------------------------------------------------------------------
(* semi_join *)

\* the value of alias.column in the row pair (lrow of L, rrow of R)
RefVal(ref, L, R, lrow, rrow) ==
    IF ref.t = AliasL THEN lrow[ColPos(L, ref.c)] ELSE rrow[ColPos(R, ref.c)]

\* the statement binds: every prefix is l or r and names a column it has
Binds(cond, L, R) ==
    \A at \in cond : \A ref \in {at.a, at.b} :
        \/ ref.t = AliasL /\ HasCol(L, ref.c)
        \/ ref.t = AliasR /\ HasCol(R, ref.c)

Matches(cond, L, R, lrow, rrow) ==
    \A at \in cond :
        RefVal(at.a, L, R, lrow, rrow) = RefVal(at.b, L, R, lrow, rrow)

SemiJoinRows_NoDistinct(d, L, R, cond) ==
    Filter(d[L], {lrow \in DOMAIN d[L] :
                 \E rrow \in DOMAIN d[R] : Matches(cond, L, R, lrow, rrow)})

SemiJoinRows_LeftTwice(d, L, R, cond) ==
    Distinct(Filter(d[L], {lrow \in DOMAIN d[L] :
                 \E rrow \in DOMAIN d[L] : Matches(cond, L, R, lrow, rrow)}))

\* the matching rows taken from the right table instead of the left one
SemiJoinRows_FromRight(d, L, R, cond) ==
    Distinct(Filter(d[R], {rrow \in DOMAIN d[R] :
                 \E lrow \in DOMAIN d[L] : Matches(cond, L, R, lrow, rrow)}))

\* SELECT DISTINCT l.* FROM L l WHERE EXISTS (SELECT 1 FROM R r WHERE cond)
SemiJoinRows(d, L, R, cond) ==
    Distinct(Filter(d[L], {lrow \in DOMAIN d[L] :
                 \E rrow \in DOMAIN d[R] : Matches(cond, L, R, lrow, rrow)}))

\* the left table dropped before the reduced copy is created
semi_join_DropFirst(d, L, R, cond) ==
    LET temp == Append(L, "_reduced")
        d1 == DropTable(d, temp)
    IN  IF L \notin DOMAIN d1 \/ R \notin DOMAIN d1 \/ ~Binds(cond, L, R)
        THEN DropTable(d1, L)
        ELSE [d1 EXCEPT ![L] = SemiJoinRows(d1, L, R, cond)]

semi_join(d, L, R, cond) ==
    LET temp == Append(L, "_reduced")
        d1 == DropTable(d, temp)
    IN  IF L \notin DOMAIN d1 \/ R \notin DOMAIN d1 \/ ~Binds(cond, L, R)
        THEN d1
        ELSE [d1 EXCEPT ![L] = SemiJoinRows(d1, L, R, cond)]

----------------------------------------------------------------------------
(* fold_cyclic_graph *)

AliasT1 == <<"t1">>
AliasT2 == <<"t2">>

\* the statement binds: every prefix is t1 or t2 and names a column it has
FoldBinds(cond, table1, table2) ==
    \A at \in cond : \A ref \in {at.a, at.b} :
        \/ ref.t = AliasT1 /\ HasCol(table1, ref.c)
        \/ ref.t = AliasT2 /\ HasCol(table2, ref.c)

FoldVal(ref, table1, table2, r1, r2) ==
    IF ref.t = AliasT1 THEN r1[ColPos(table1, ref.c)]
    ELSE r2[ColPos(table2, ref.c)]

\* SELECT * FROM table1 t1 JOIN table2 t2 ON fold_cond
JoinRows(d, table1, table2, fold_cond) ==
    LET pairs == {p \in (DOMAIN d[table1]) \X (DOMAIN d[table2]) :
                    \A at \in fold_cond :
                        FoldVal(at.a, table1, table2, p[1], p[2])
                            = FoldVal(at.b, table1, table2, p[1], p[2])}
    IN  [row \in {p[1] \o p[2] : p \in pairs} |->
            LET p == CHOOSE q \in pairs : q[1] \o q[2] = row
            IN  d[table1][p[1]] * d[table2][p[2]]]

\* the new edge list of one fold step
RECURSIVE FoldEdges(_, _, _, _)
FoldEdges(es, table1, table2, joined_name) ==
    IF es = <<>> THEN <<>>
    ELSE LET e == Head(es)
             rest == FoldEdges(Tail(es), table1, table2, joined_name)
             cond == SubPrefix(SubPrefix(e.cond, table1, joined_name),
                               table2, joined_name)
         IN  IF {e.t1, e.t2} = {table1, table2} THEN rest
             ELSE IF e.t1 = table1 \/ e.t1 = table2
                  THEN <<Edge(joined_name, e.t2, cond)>> \o rest
             ELSE IF e.t2 = table1 \/ e.t2 = table2
                  THEN <<Edge(e.t1, joined_name, cond)>> \o rest
             ELSE <<Edge(e.t1, e.t2, cond)>> \o rest

FoldResult(ns, es, d, log, status) ==
    [nodes |-> ns, edges |-> es, db |-> d, ops |-> log, status |-> status]

\* the loop body with the two remove calls left out: the composite node is
\* added and table1 and table2 stay in nodes
FoldPair_KeepsTables(ns, es, d, log, table1, table2) ==
    LET join_cond == get_join_condition(es, table1, table2)
        joined_name == table1 \o table2
        fold_cond == SubPrefix(SubPrefix(join_cond, table1, AliasT1),
                               table2, AliasT2)
        log2 == Append(log, Op("fold", table1, table2, fold_cond))
    IN  IF join_cond = NoCond THEN FoldResult(ns, es, d, log, "break")
        ELSE IF \/ joined_name \in DOMAIN d
                \/ table1 \notin DOMAIN d
                \/ table2 \notin DOMAIN d
                \/ ~FoldBinds(fold_cond, table1, table2)
        THEN FoldResult(ns, es, d, log2, "break")
        ELSE LET d2 == PutTable(d, joined_name,
                                JoinRows(d, table1, table2, fold_cond))
             IN  FoldResult(ns \cup {joined_name},
                            FoldEdges(es, table1, table2, joined_name),
                            d2, log2, "folded")

\* the body of the while loop for the chosen table1 and table2:
\* status "folded" (loop again), "break" or "raised" (KeyError)
FoldPair(ns, es, d, log, table1, table2) ==
    LET join_cond == get_join_condition(es, table1, table2)
        joined_name == table1 \o table2
        fold_cond == SubPrefix(SubPrefix(join_cond, table1, AliasT1),
                               table2, AliasT2)
        log2 == Append(log, Op("fold", table1, table2, fold_cond))
    IN  IF join_cond = NoCond THEN FoldResult(ns, es, d, log, "break")
        ELSE IF \/ joined_name \in DOMAIN d
                \/ table1 \notin DOMAIN d
                \/ table2 \notin DOMAIN d
                \/ ~FoldBinds(fold_cond, table1, table2)
        THEN FoldResult(ns, es, d, log2, "break")
        ELSE LET d2 == PutTable(d, joined_name,
                                JoinRows(d, table1, table2, fold_cond))
             IN  IF table1 \notin ns
                 THEN FoldResult(ns, es, d2, log2, "break")
                 ELSE IF table2 \notin ns \ {table1}
                 THEN FoldResult(ns \ {table1}, es, d2, log2, "break")
                 ELSE FoldResult((ns \ {table1, table2}) \cup {joined_name},
                                 FoldEdges(es, table1, table2, joined_name),
                                 d2, log2, "folded")

\* one iteration of the while loop, over the choices max() may make
FoldIterations(ns, es, d, log) ==
    UNION {
        LET neighbors == get_neighbors(es, table1)
        IN  IF neighbors = {} THEN {FoldResult(ns, es, d, log, "break")}
            ELSE IF ~(neighbors \subseteq ns)
            THEN {FoldResult(ns, es, d, log, "raised")}
            ELSE {FoldPair(ns, es, d, log, table1, table2) :
                     table2 \in MaxDegree(es, neighbors)}
        : table1 \in MaxDegree(es, ns)}

----------------------------------------------------------------------------
(* yannakakis_reduction *)

RECURSIVE Perms(_)
Perms(S) ==
    IF S = {} THEN {<<>>}
    ELSE UNION {{<<x>> \o p : p \in Perms(S \ {x})} : x \in S}

\* the BFS loop with the parent recorded for every neighbour, visited or not
RECURSIVE BFSRuns_ParentOfVisited(_, _, _, _, _)
BFSRuns_ParentOfVisited(es, queue, visited, order, parent) ==
    IF queue = <<>> THEN {[order |-> order, parent |-> parent]}
    ELSE LET node == Head(queue)
             rest == Tail(queue)
         IN  IF node \in visited
             THEN BFSRuns_ParentOfVisited(es, rest, visited, order, parent)
             ELSE LET v2 == visited \cup {node}
                      nb == get_neighbors(es, node) \ v2
                      all == get_neighbors(es, node)
                      p2 == [n \in DOMAIN parent \cup all |->
                                IF n \in all THEN node ELSE parent[n]]
                  IN  UNION {BFSRuns_ParentOfVisited(es, rest \o q, v2,
                                                     Append(order, node), p2)
                                : q \in Perms(nb)}

\* the BFS loop: every order in which the neighbour sets may be iterated
RECURSIVE BFSRuns(_, _, _, _, _)
BFSRuns(es, queue, visited, order, parent) ==
    IF queue = <<>> THEN {[order |-> order, parent |-> parent]}
    ELSE LET node == Head(queue)
             rest == Tail(queue)
         IN  IF node \in visited
             THEN BFSRuns(es, rest, visited, order, parent)
             ELSE LET v2 == visited \cup {node}
                      nb == get_neighbors(es, node) \ v2
                      p2 == [n \in DOMAIN parent \cup nb |->
                                IF n \in nb THEN node ELSE parent[n]]
                  IN  UNION {BFSRuns(es, rest \o q, v2, Append(order, node), p2)
                                : q \in Perms(nb)}

_rewrite_cond(cond, left_table, right_table) ==
    SubPrefix(SubPrefix(cond, left_table, AliasL), right_table, AliasR)

\* one pass of semi-joins over the nodes listed in seq; st = [db, ops]
RECURSIVE BottomUp(_, _, _, _)
BottomUp(es, par, seq, st) ==
    IF seq = <<>> THEN st
    ELSE LET node == Head(seq)
             parent == par[node]
             join_cond == get_join_condition(es, parent, node)
         IN  BottomUp(es, par, Tail(seq),
                 IF join_cond = NoCond THEN st
                 ELSE [db |-> semi_join(st.db, parent, node,
                                  _rewrite_cond(join_cond, parent, node)),
                       ops |-> Append(st.ops, Op("semi", parent, node,
                                  _rewrite_cond(join_cond, parent, node)))])

TopDown_Skipped(es, par, seq, st) == st

\* the top-down pass walking the BFS order backwards, leaves first
RECURSIVE TopDown_LeavesFirst(_, _, _, _)
TopDown_LeavesFirst(es, par, seq, st) ==
    IF seq = <<>> THEN st
    ELSE LET node == seq[Len(seq)]
             parent == par[node]
             join_cond == get_join_condition(es, node, parent)
         IN  TopDown_LeavesFirst(es, par, SubSeq(seq, 1, Len(seq) - 1),
                 IF join_cond = NoCond THEN st
                 ELSE [db |-> semi_join(st.db, node, parent,
                                  _rewrite_cond(join_cond, node, parent)),
                       ops |-> Append(st.ops, Op("semi", node, parent,
                                  _rewrite_cond(join_cond, node, parent)))])

RECURSIVE TopDown(_, _, _, _)
TopDown(es, par, seq, st) ==
    IF seq = <<>> THEN st
    ELSE LET node == Head(seq)
             parent == par[node]
             join_cond == get_join_condition(es, node, parent)
         IN  TopDown(es, par, Tail(seq),
                 IF join_cond = NoCond THEN st
                 ELSE [db |-> semi_join(st.db, node, parent,
                                  _rewrite_cond(join_cond, node, parent)),
                       ops |-> Append(st.ops, Op("semi", node, parent,
                                  _rewrite_cond(join_cond, node, parent)))])

\* the bottom-up pass walking the BFS order forwards
Reverse_Forward(s) == s

Reverse(s) == [i \in 1..Len(s) |-> s[Len(s) + 1 - i]]

\* the division without its original_size > 0 guard
Pct_Unguarded(original, reduced) == <<(original - reduced) * 100, original>>

\* percent as the exact fraction num / den
Pct(original, reduced) ==
    IF original > 0 THEN <<(original - reduced) * 100, original>>
    ELSE <<0, 1>>

\* the original size read from the table as it is now
Stats_CurrentCount(d, sizes, ns) ==
    [t \in ns |->
        LET reduced == IF t \in DOMAIN d THEN Count(d[t]) ELSE 0
        IN  <<reduced, reduced, Pct(reduced, reduced)>>]

Stats(d, sizes, ns) ==
    [t \in ns |->
        LET original == IF t \in DOMAIN sizes THEN sizes[t] ELSE 0
            reduced == IF t \in DOMAIN d THEN Count(d[t]) ELSE 0
        IN  <<original, reduced, Pct(original, reduced)>>]

\* an empty result also for a graph without edges
YannakakisRuns_EmptyWithoutEdges(d, sizes, ns, es, log) ==
    IF ns = {} \/ es = <<>>
    THEN {[db |-> d, ops |-> log, order |-> <<>>, parent |-> <<>>,
           reductions |-> <<>>]}
    ELSE UNION {
           { LET up == BottomUp(es, b.parent, Reverse(Tail(b.order)),
                                [db |-> d, ops |-> log])
                 down == TopDown(es, b.parent, Tail(b.order), up)
             IN  [db |-> down.db, ops |-> down.ops, order |-> b.order,
                  parent |-> b.parent,
                  reductions |-> Stats(down.db, sizes, ns)]
             : b \in BFSRuns(es, <<root>>, {}, <<>>,
                             [n \in {root} |-> NoParent]) }
           : root \in MaxDegree(es, ns) }

\* the statistics computed for the nodes of the BFS order only
YannakakisRuns_ReportsVisited(d, sizes, ns, es, log) ==
    IF ns = {}
    THEN {[db |-> d, ops |-> log, order |-> <<>>, parent |-> <<>>,
           reductions |-> <<>>]}
    ELSE UNION {
           { LET up == BottomUp(es, b.parent, Reverse(Tail(b.order)),
                                [db |-> d, ops |-> log])
                 down == TopDown(es, b.parent, Tail(b.order), up)
             IN  [db |-> down.db, ops |-> down.ops, order |-> b.order,
                  parent |-> b.parent,
                  reductions |->
                      Stats(down.db, sizes,
                            {b.order[i] : i \in 1..Len(b.order)})]
             : b \in BFSRuns(es, <<root>>, {}, <<>>,
                             [n \in {root} |-> NoParent]) }
           : root \in MaxDegree(es, ns) }

\* the outcomes of yannakakis_reduction on graph (ns, es):
\* [db, ops, order, parent, reductions]
YannakakisRuns(d, sizes, ns, es, log) ==
    IF ns = {}
    THEN {[db |-> d, ops |-> log, order |-> <<>>, parent |-> <<>>,
           reductions |-> <<>>]}
    ELSE UNION {
           { LET up == BottomUp(es, b.parent, Reverse(Tail(b.order)),
                                [db |-> d, ops |-> log])
                 down == TopDown(es, b.parent, Tail(b.order), up)
             IN  [db |-> down.db, ops |-> down.ops, order |-> b.order,
                  parent |-> b.parent,
                  reductions |-> Stats(down.db, sizes, ns)]
             : b \in BFSRuns(es, <<root>>, {}, <<>>,
                             [n \in {root} |-> NoParent]) }
           : root \in MaxDegree(es, ns) }

----------------------------------------------------------------------------
(* The reducer on its own: yannakakis_reduction(graph) called on a graph   *)
(* built with add_node / add_edge over loaded tables, which hold the rows  *)
(* they had at load time or the rows an earlier filter has left of them.   *)

Name(i) == <<TableNames[i]>>

\* "ti.ci = tj.cj"
EquiCond(i, ci, j, cj) ==
    {Atom(Ref(Name(i), <<TableNames[i], ci>>), Ref(Name(j), <<TableNames[j], cj>>))}

\* graphs in which table n joins at most one earlier table: trees and forests
RECURSIVE ForestEdges(_)
ForestEdges(n) ==
    IF n <= 1 THEN {<<>>}
    ELSE {es \o x : es \in ForestEdges(n - 1),
                    x \in {<<>>} \cup
                          {<<Edge(Name(i), Name(n), EquiCond(i, ci, n, cj))>> :
                              i \in 1..(n - 1), ci \in Cols, cj \in Cols}}

LoadedTables == {SetToTable(S) : S \in {X \in SUBSET BaseRows : Cardinality(X) <= MaxRows}}

InitYannakakis ==
    /\ \E n \in 0..MaxNodes :
          /\ nodes = {Name(i) : i \in 1..n}
          /\ edges \in ForestEdges(n)
    /\ db \in [nodes -> LoadedTables]
    /\ table_sizes \in {s \in [nodes -> 0..MaxRows] :
                          \A t \in nodes : s[t] \in {Count(db[t]), MaxRows}}
    /\ aliases = <<>>
    /\ pc = "ready"
    /\ bfs_order = <<>>
    /\ parent_of = <<>>
    /\ ops = <<>>
    /\ query = NoQuery
    /\ reductions = <<>>
    /\ pending = 0
    /\ failed = 0

Yannakakis ==
    /\ pc = "ready"
    /\ \E run \in YannakakisRuns(db, table_sizes, nodes, edges, ops) :
          /\ db' = run.db
          /\ ops' = run.ops
          /\ bfs_order' = run.order
          /\ parent_of' = run.parent
          /\ reductions' = run.reductions
    /\ pc' = "done"
    /\ UNCHANGED <<pending, failed, query, table_sizes, nodes, edges, aliases>>

NextYannakakis == Yannakakis

SpecYannakakis == InitYannakakis /\ [][NextYannakakis]_vars

----------------------------------------------------------------------------
(* The join of all tables of a graph under its edge conditions. *)

EdgeHolds(e, f) ==
    \A at \in e.cond :
        f[at.a.t][ColPos(at.a.t, at.a.c)] = f[at.b.t][ColPos(at.b.t, at.b.c)]

\* row r of table t takes part in a tuple of the join of all tables of ns
Participates(d, ns, es, t, r) ==
    \E f \in [ns -> BaseRows] :
        /\ f[t] = r
        /\ \A n \in ns : f[n] \in DOMAIN d[n]
        /\ \A k \in 1..Len(es) : EdgeHolds(es[k], f)

FullyReduced ==
    \A t \in nodes : \A r \in DOMAIN db[t] : Participates(db, nodes, edges, t, r)

RECURSIVE Reach(_, _)
Reach(es, S) ==
    LET S2 == S \cup UNION {get_neighbors(es, t) : t \in S}
    IN  IF S2 = S THEN S ELSE Reach(es, S2)

IsTree(ns, es) ==
    /\ ns # {}
    /\ Len(es) = Cardinality(ns) - 1
    /\ \A t \in ns : Reach(es, {t}) = ns

----------------------------------------------------------------------------
(* The semi-join on its own: semi_join(left, right, cond) called on two    *)
(* loaded tables, and then called a second time with the same arguments.   *)

SemiRows == [Cols -> 1..MaxKey]

\* the left table: up to MaxRows different rows, each up to MaxDup times
LeftTables ==
    UNION {[S -> 1..MaxDup] : S \in {X \in SUBSET SemiRows : Cardinality(X) <= MaxRows}}

RightTables ==
    {SetToTable(S) : S \in {X \in SUBSET SemiRows : Cardinality(X) <= MaxRows}}

\* conditions as semi_join receives them, over the aliases l and r: a
\* column of a against a column of b, or against a column of a itself; the
\* last names a table that the statement does not bind
SemiConds ==
    {{Atom(Ref(AliasL, <<"a", ci>>), Ref(AliasR, <<rt, cj>>))} :
        ci \in Cols, cj \in Cols, rt \in {"a", "b"}}
    \cup {{Atom(Ref(<<"x">>, <<"x", 1>>), Ref(AliasR, <<"b", 1>>))}}

InitSemiJoin ==
    /\ \E ta \in LeftTables, tb \in RightTables :
          db = (Name(1) :> ta) @@ (Name(2) :> tb)
    /\ table_sizes = [t \in DOMAIN db |-> Count(db[t])]
    /\ nodes = {}
    /\ edges = <<>>
    /\ aliases = <<>>
    /\ pc = "ready"
    /\ bfs_order = <<>>
    /\ parent_of = <<>>
    /\ ops = <<>>
    /\ query = NoQuery
    /\ reductions = <<>>
    /\ pending = 0
    /\ failed = 0

\* r.semi_join(left, right, cond); the right table may be the left one, or
\* a table the backend does not hold
SemiJoinCall ==
    /\ pc = "ready"
    /\ \E R \in {Name(1), Name(2), Name(3)}, cond \in SemiConds :
          /\ db' = semi_join(db, Name(1), R, cond)
          /\ ops' = Append(ops, Op("semi", Name(1), R, cond))
    /\ pc' = "called"
    /\ UNCHANGED <<pending, failed, query, table_sizes, nodes, edges, aliases, bfs_order, parent_of,
                   reductions>>

\* the same call again, immediately
SemiJoinAgain ==
    /\ pc = "called"
    /\ LET last == ops[Len(ops)]
       IN  /\ db' = semi_join(db, last.left, last.right, last.cond)
           /\ ops' = Append(ops, last)
    /\ pc' = "repeated"
    /\ UNCHANGED <<pending, failed, query, table_sizes, nodes, edges, aliases, bfs_order, parent_of,
                   reductions>>

NextSemiJoin == SemiJoinCall \/ SemiJoinAgain

SpecSemiJoin == InitSemiJoin /\ [][NextSemiJoin]_vars

LastOp == ops[Len(ops)]

\* the statement of the last call executes: both tables exist and it binds
Executes(d, op) ==
    /\ op.left \in DOMAIN d
    /\ op.right \in DOMAIN d
    /\ Binds(op.cond, op.left, op.right)

\* the rows of L that have a partner in R under cond, once each
MatchingRows(d, op) ==
    {l \in DOMAIN d[op.left] :
        \E r \in DOMAIN d[op.right] :
            \A at \in op.cond :
                RefVal(at.a, op.left, op.right, l, r)
                    = RefVal(at.b, op.left, op.right, l, r)}

\* C2: a semi-join whose statement executes replaces L by exactly the
\* distinct rows of the previous L that have a matching row in R; the row
\* count of L does not grow and L holds no row twice afterwards.
C2_SemiJoinDistinctSubset ==
    [][(pc = "ready" /\ pc' = "called" /\ Executes(db, ops'[Len(ops')])) =>
          LET op == ops'[Len(ops')]
          IN  /\ DOMAIN db'[op.left] = MatchingRows(db, op)
              /\ \A r \in DOMAIN db'[op.left] : db'[op.left][r] = 1
              /\ Count(db'[op.left]) <= Count(db[op.left])]_vars

C2_Witness ==
    /\ pc = "called"
    /\ Executes(db, LastOp)
    /\ LastOp.right # LastOp.left
    /\ Cardinality(DOMAIN db[LastOp.left]) = 1
    /\ table_sizes[LastOp.left] = 2 * MaxDup

\* C3 as stated: for all tables L and R (L = R included), the second of two
\* identical semi-joins in succession leaves every table as the first left it.
C3_AsStated ==
    [][(pc = "called" /\ pc' = "repeated") => db' = db]_vars

\* C3 amended: for all distinct tables L and R, the second of two identical
\* semi-joins in succession leaves L with exactly the rows the first left.
C3_IdempotentOnDistinctTables ==
    [][(pc = "called" /\ pc' = "repeated" /\ LastOp.left # LastOp.right)
          => db' = db]_vars

C3_Witness ==
    /\ pc = "repeated"
    /\ LastOp.left # LastOp.right
    /\ Executes(db, LastOp)
    /\ db[LastOp.left] # EmptyTable
    /\ Count(db[LastOp.left]) < table_sizes[LastOp.left]

----------------------------------------------------------------------------
(* The folder on its own: fold_cyclic_graph(graph) called on a graph built *)
(* with add_node / add_edge, one loop iteration per step.                  *)

\* "ti.c1 = tj.c1"; with k > 0 also "AND ti.c2 = tk.c1", as the ON clause of
\* a JOIN that compares its table with two others
FoldCond(i, j, k) ==
    EquiCond(i, 1, j, 1) \cup (IF k = 0 THEN {} ELSE EquiCond(i, 2, k, 1))

FoldEdgeChoices(n) ==
    {Edge(Name(t[1]), Name(t[2]), FoldCond(t[1], t[2], t[3])) :
        t \in {x \in (1..n) \X (1..n) \X (0..n) :
                  x[1] <= x[2] /\ x[3] \notin {x[1], x[2]}}}

RECURSIVE SeqsUpTo(_, _)
SeqsUpTo(S, n) ==
    IF n = 0 THEN {<<>>}
    ELSE LET shorter == SeqsUpTo(S, n - 1)
         IN  shorter \cup {Append(q, x) : q \in {p \in shorter : Len(p) = n - 1},
                                           x \in S}

FoldTable == SetToTable({<<1, 1>>, <<1, 2>>, <<2, 1>>})

InitFold ==
    /\ \E n \in 0..MaxFoldNodes :
          /\ nodes = {Name(i) : i \in 1..n}
          /\ edges \in SeqsUpTo(FoldEdgeChoices(n), MaxFoldEdges)
          /\ \E loaded \in {nodes, {Name(i) : i \in 1..(n - 1)}} :
                db = [t \in loaded |-> FoldTable]
    /\ table_sizes = [t \in DOMAIN db |-> Count(db[t])]
    /\ aliases = <<>>
    /\ pc = "fold"
    /\ bfs_order = <<>>
    /\ parent_of = <<>>
    /\ ops = <<>>
    /\ query = NoQuery
    /\ reductions = <<>>
    /\ pending = 0
    /\ failed = 0

\* one iteration of "while graph.is_cyclic()"
FoldStep ==
    /\ pc = "fold"
    /\ is_cyclic(nodes, edges)
    /\ \E it \in FoldIterations(nodes, edges, db, ops) :
          /\ nodes' = it.nodes
          /\ edges' = it.edges
          /\ db' = it.db
          /\ ops' = it.ops
          /\ pc' = CASE it.status = "folded" -> "fold"
                     [] it.status = "break" -> "folded"
                     [] OTHER -> "raised"
    /\ UNCHANGED <<pending, failed, query, table_sizes, aliases, bfs_order, parent_of, reductions>>

\* the loop condition is false: return graph
FoldReturn ==
    /\ pc = "fold"
    /\ ~is_cyclic(nodes, edges)
    /\ pc' = "folded"
    /\ UNCHANGED <<pending, failed, query, db, table_sizes, nodes, edges, aliases, bfs_order,
                   parent_of, ops, reductions>>

NextFold == FoldStep \/ FoldReturn

SpecFold == InitFold /\ [][NextFold]_vars

\* C4: fold_cyclic_graph returns a graph that is_cyclic() reports as not
\* cyclic, and returns a graph that is not cyclic with nodes and edges
\* unchanged.
C4_FoldReturnsAcyclic ==
    [][/\ (pc = "fold" /\ pc' = "folded") => ~is_cyclic(nodes', edges')
       /\ (pc = "fold" /\ ~is_cyclic(nodes, edges))
             => (nodes' = nodes /\ edges' = edges)]_vars

\* C5: is_cyclic() is true if and only if N > 0 and E >= N, every edge of
\* the list counted.
C5_CyclicIffEdgesGeNodes ==
    is_cyclic(nodes, edges)
        <=> (Cardinality(nodes) > 0 /\ Len(edges) >= Cardinality(nodes))

C5_Witness ==
    /\ Cardinality(nodes) = 2
    /\ Len(edges) = 2
    /\ edges[1].t1 = edges[2].t1 /\ edges[1].t2 = edges[2].t2
    /\ edges[1].t1 # edges[1].t2
    /\ \E n \in nodes : Len(n) = 2
    /\ ops # <<>>
    /\ is_cyclic(nodes, edges)

----------------------------------------------------------------------------
(* _apply_local_predicates: selection pushdown.  A WHERE body is a set of   *)
(* conjuncts, each "p.c = v" or "p.c IN (SELECT q.c2 FROM t q)"; the        *)
(* subquery names its table t and binds the prefix q for it.                *)

Cmp(ref, val) ==
    [kind |-> "cmp", ref |-> ref, val |-> val, sub |-> NoRef,
     from |-> <<>>, as |-> <<>>]

InSub(ref, sub, from, as) ==
    [kind |-> "in", ref |-> ref, val |-> 0, sub |-> sub,
     from |-> from, as |-> as]

\* re.search(rf'\b{prefix}\.', where_body)
Mentions(body, prefix) ==
    \E c \in body : c.ref.t = prefix \/ (c.kind = "in" /\ c.sub.t = prefix)

\* re.sub(alias_pat, f'{table}.', where_body)
SubBody(body, name, to) ==
    {[c EXCEPT !.ref = Ref(IF c.ref.t = name THEN to ELSE c.ref.t, c.ref.c),
               !.sub = Ref(IF c.kind = "in" /\ c.sub.t = name
                           THEN to ELSE c.sub.t, c.sub.c)] : c \in body}

\* SELECT * FROM table WHERE predicate binds: an outer reference names the
\* table itself; a reference inside a subquery names the subquery's table
\* by the prefix the subquery gives it, or else the outer table
PredBinds(d, table, predicate) ==
    \A c \in predicate :
        /\ c.ref.t = table
        /\ HasCol(table, c.ref.c)
        /\ c.kind = "in" =>
              /\ c.from \in DOMAIN d
              /\ IF c.sub.t = c.as THEN HasCol(c.from, c.sub.c)
                 ELSE c.sub.t = table /\ HasCol(table, c.sub.c)

PredHolds(d, table, predicate, row) ==
    \A c \in predicate :
        LET v == row[ColPos(table, c.ref.c)]
        IN  CASE c.kind = "cmp" -> v = c.val
              [] c.kind = "in" /\ c.sub.t = c.as ->
                    \E r \in DOMAIN d[c.from] : r[ColPos(c.from, c.sub.c)] = v
              [] OTHER ->
                    DOMAIN d[c.from] # {} /\ row[ColPos(table, c.sub.c)] = v

\* the four statements of one pushdown: DROP TABLE IF EXISTS temp, CREATE
\* TABLE temp AS SELECT * FROM table WHERE predicate, DROP TABLE table,
\* ALTER TABLE temp RENAME TO table; an exception leaves the table as it is
ApplyFilter(d, table, predicate) ==
    LET temp == Append(table, "_filtered")
        d1 == DropTable(d, temp)
    IN  IF table \notin DOMAIN d1 \/ ~PredBinds(d1, table, predicate) THEN d1
        ELSE [d1 EXCEPT ![table] =
                 Filter(d1[table], {row \in DOMAIN d1[table] :
                                       PredHolds(d1, table, predicate, row)})]

AliasedTables(al) == {al[i][1] : i \in 1..Len(al)}

\* the loop over graph.aliases.items(); st = [db, ops]
RECURSIVE PushAliased(_, _, _, _)
PushAliased(al, k, where_body, st) ==
    IF k > Len(al) THEN st
    ELSE LET table == al[k][1]
             alias == al[k][2]
             other_aliases == {al[i][2] : i \in {j \in 1..Len(al) :
                                  al[j][1] # table /\ al[j][2] # alias}}
             predicate == SubBody(where_body, alias, table)
         IN  PushAliased(al, k + 1, where_body,
                 IF \/ ~Mentions(where_body, alias)
                    \/ \E oa \in other_aliases : Mentions(where_body, oa)
                 THEN st
                 ELSE [db |-> ApplyFilter(st.db, table, predicate),
                       ops |-> Append(st.ops,
                                  Op("pushdown", table, table, predicate))])

\* the loop over graph.nodes, in the order seq
RECURSIVE PushUnaliased(_, _, _, _, _)
PushUnaliased(ns, al, seq, where_body, st) ==
    IF seq = <<>> THEN st
    ELSE LET table == Head(seq)
         IN  PushUnaliased(ns, al, Tail(seq), where_body,
                 IF \/ table \in AliasedTables(al)
                    \/ ~Mentions(where_body, table)
                    \/ \E ot \in ns \ {table} : Mentions(where_body, ot)
                 THEN st
                 ELSE [db |-> ApplyFilter(st.db, table, where_body),
                       ops |-> Append(st.ops,
                                  Op("pushdown", table, table, where_body))])

\* the outcomes [db, ops] of _apply_local_predicates(base_query, graph)
_apply_local_predicates(d, log, base_query, ns, al) ==
    IF base_query.where = {} THEN {[db |-> d, ops |-> log]}
    ELSE {PushUnaliased(ns, al, seq, base_query.where,
              PushAliased(al, 1, base_query.where, [db |-> d, ops |-> log]))
            : seq \in Perms(ns)}

----------------------------------------------------------------------------
(* Selection pushdown on its own: _apply_local_predicates(query, g) called *)
(* on a graph built with add_node(table[, alias]) over loaded tables.       *)

AliasTokens == <<"x", "y", "z">>

AliasName(i) == <<AliasTokens[i]>>

\* the prefixes a query may use for table i: its name or its alias
PrefixesOf(i) == {Name(i), AliasName(i)}

PushConjuncts(n) ==
    UNION {{Cmp(Ref(p, <<TableNames[i], 1>>), v) :
               p \in PrefixesOf(i), v \in Vals} : i \in 1..n}
    \cup
    UNION {{InSub(Ref(p, <<TableNames[x[1]], 1>>),
                  Ref(q, <<TableNames[x[2]], 1>>), Name(x[2]), q) :
               p \in PrefixesOf(x[1]), q \in PrefixesOf(x[2])} :
             x \in (1..n) \X (1..n)}

\* graph.aliases after add_node calls: some tables aliased, in any order
AliasChoices(n) ==
    UNION {{[k \in 1..Len(seq) |-> <<Name(seq[k]), AliasName(seq[k])>>] :
               seq \in Perms(S)} : S \in SUBSET (1..n)}

InitPushdown ==
    /\ \E n \in 1..MaxPushNodes :
          /\ nodes = {Name(i) : i \in 1..n}
          /\ aliases \in AliasChoices(n)
          /\ \E body \in {B \in SUBSET PushConjuncts(n) :
                             Cardinality(B) <= MaxConjuncts} :
                query = Query(<<>>, <<>>, body, <<>>, NoHaving)
    /\ edges = <<>>
    /\ db \in [nodes -> LoadedTables]
    /\ table_sizes = [t \in nodes |-> Count(db[t])]
    /\ pc = "ready"
    /\ bfs_order = <<>>
    /\ parent_of = <<>>
    /\ ops = <<>>
    /\ reductions = <<>>
    /\ pending = 0
    /\ failed = 0

Pushdown ==
    /\ pc = "ready"
    /\ \E out \in _apply_local_predicates(db, ops, query, nodes, aliases) :
          /\ db' = out.db
          /\ ops' = out.ops
    /\ pc' = "pushed"
    /\ UNCHANGED <<pending, failed, query, table_sizes, nodes, edges, aliases, bfs_order,
                   parent_of, reductions>>

NextPushdown == Pushdown

SpecPushdown == InitPushdown /\ [][NextPushdown]_vars

\* the tables of the graph that the WHERE body refers to, by alias or name
TablesMentioned(body, ns, al) ==
    {t \in ns : \/ Mentions(body, t)
                \/ \E k \in 1..Len(al) : al[k][1] = t /\ Mentions(body, al[k][2])}

\* C6: a WHERE body that mentions the prefixes of more than one table of
\* the graph is never applied: selection pushdown leaves every backend
\* table unchanged.
C6_MultiTableBodyNotApplied ==
    [][(/\ pc = "ready" /\ pc' = "pushed"
        /\ Cardinality(TablesMentioned(query.where, nodes, aliases)) > 1)
          => db' = db]_vars

----------------------------------------------------------------------------
(* compute_having_aware_reduction.  The names of a query are read as text: *)
(* each token of a table name or alias is one character.                    *)

TableRef(table, alias) == [table |-> table, alias |-> alias]

\* JOIN table alias ON on; without ON (on = <<>>) it is CROSS JOIN table alias
Join(table, alias, on) == [table |-> table, alias |-> alias, on |-> on]

\* group_cols: "p.col, q.col, ..."
RECURSIVE GroupText(_)
GroupText(group) ==
    IF group = <<>> THEN <<>>
    ELSE group[1].t \o <<".", "col">>
         \o (IF Len(group) = 1 THEN <<>> ELSE <<",", " ">> \o GroupText(Tail(group)))

\* pat in text
Contains(text, pat) ==
    \E i \in 1..(Len(text) - Len(pat) + 1) :
        SubSeq(text, i, i + Len(pat) - 1) = pat

\* text.startswith(pat)
StartsWith(text, pat) ==
    Len(pat) <= Len(text) /\ SubSeq(text, 1, Len(pat)) = pat

\* the HAVING, GROUP BY and FROM ... JOIN ... ON patterns all match
HavingPatternMatches(q) ==
    /\ q.having.kind \in {"star", "distinct"}
    /\ q.group # <<>>
    /\ q.from # <<>>
    /\ q.from.alias # <<>>
    /\ q.joins # <<>>
    /\ q.joins[1].alias # <<>>
    /\ q.joins[1].on # <<>>

\* f"{alias}." in group_cols or group_cols.startswith(alias)
AppearsInGroup(group_cols, alias) ==
    \/ Contains(GroupText(group_cols), alias \o <<".">>)
    \/ StartsWith(GroupText(group_cols), alias)

\* which table is the parent: the FROM table, the JOIN table or neither
ParentSide(q) ==
    IF AppearsInGroup(q.group, q.from.alias) THEN "from"
    ELSE IF AppearsInGroup(q.group, q.joins[1].alias) THEN "join"
    ELSE "none"

\* SELECT COUNT(*) of the join rows with key value k
JoinCount(d, child, fk, parent, pk, k) ==
    SumOver(d[child], {r \in DOMAIN d[child] : r[ColPos(child, fk)] = k})
        * SumOver(d[parent], {r \in DOMAIN d[parent] : r[ColPos(parent, pk)] = k})

\* SELECT p.pk FROM child c JOIN parent p ON c.fk = p.pk
\* GROUP BY p.pk HAVING COUNT(*) >= min_count
SurvivingKeys(d, child, fk, parent, pk, q) ==
    {k \in {r[ColPos(parent, pk)] : r \in DOMAIN d[parent]} :
        /\ JoinCount(d, child, fk, parent, pk, k) >= 1
        /\ JoinCount(d, child, fk, parent, pk, k) >= q.having.n}

\* the two statements bind: both tables exist under different aliases and
\* hold the key columns
HavingBinds(d, child, child_alias, fk, parent, parent_alias, pk) ==
    /\ child \in DOMAIN d
    /\ parent \in DOMAIN d
    /\ child_alias # parent_alias
    /\ HasCol(child, fk)
    /\ HasCol(parent, pk)

SizeOf(sizes, t) == IF t \in DOMAIN sizes THEN sizes[t] ELSE 0

NotApplicable == [none |-> TRUE, value |-> <<>>]

\* the returned Optional[Dict]: [none, value]
compute_having_aware_reduction(d, sizes, q) ==
    IF ~HavingPatternMatches(q) \/ ParentSide(q) = "none" THEN NotApplicable
    ELSE
    LET from_is_parent == ParentSide(q) = "from"
        parent_table == IF from_is_parent THEN q.from.table ELSE q.joins[1].table
        parent_alias == IF from_is_parent THEN q.from.alias ELSE q.joins[1].alias
        child_table == IF from_is_parent THEN q.joins[1].table ELSE q.from.table
        child_alias == IF from_is_parent THEN q.joins[1].alias ELSE q.from.alias
        cond == q.joins[1].on[1]
        parent_pk_col == IF cond.a.t = parent_alias THEN cond.a.c ELSE cond.b.c
        child_fk_col == IF cond.a.t = parent_alias THEN cond.b.c ELSE cond.a.c
        binds == HavingBinds(d, child_table, child_alias, child_fk_col,
                             parent_table, parent_alias, parent_pk_col)
        keys == SurvivingKeys(d, child_table, child_fk_col,
                              parent_table, parent_pk_col, q)
        parent_original == SizeOf(sizes, parent_table)
        parent_reduced == IF binds THEN Cardinality(keys) ELSE parent_original
        child_original == SizeOf(sizes, child_table)
        child_reduced ==
            IF binds
            THEN SumOver(d[child_table],
                     {r \in DOMAIN d[child_table] :
                         r[ColPos(child_table, child_fk_col)] \in keys})
            ELSE child_original
    IN  [none |-> FALSE,
         value |-> [t \in {parent_table, child_table} |->
                       IF t = child_table
                       THEN <<child_original, child_reduced,
                              Pct(child_original, child_reduced)>>
                       ELSE <<parent_original, parent_reduced,
                              Pct(parent_original, parent_reduced)>>]]

----------------------------------------------------------------------------
(* The estimator on its own: compute_having_aware_reduction(query) called  *)
(* over a loaded child table a and parent table b.                          *)

HavingAliases == {<<"x">>, <<"y">>, <<"x", "y">>}

\* the prefix a query uses for a table: its alias, or its name without one
PrefixOf(tr) == IF tr.alias = <<>> THEN tr.table ELSE tr.alias

ChildFk == <<"a", 1>>
ParentPk == <<"b", 1>>

HavingQueries ==
    {Query(f, <<Join(j.table, j.alias, on)>>, {}, g, h) :
        f \in {TableRef(Name(1), al) : al \in HavingAliases \cup {<<>>}},
        j \in {TableRef(Name(2), al) : al \in HavingAliases \cup {<<>>}},
        on \in {<<Atom(Ref(<<"f">>, ChildFk), Ref(<<"j">>, ParentPk))>>,
                <<Atom(Ref(<<"j">>, ParentPk), Ref(<<"f">>, ChildFk))>>},
        g \in {<<>>} \cup {<<Ref(p, c)>> : p \in HavingAliases,
                                           c \in {ChildFk, ParentPk}},
        h \in {NoHaving}
              \cup {Having("star", NoRef, n) : n \in 0..MaxCount}
              \cup {Having("distinct", Ref(<<"f">>, <<"a", c>>), n) :
                       c \in Cols, n \in 0..MaxCount}}

\* the clauses of the query name its tables by their prefixes: "f" stands
\* for the prefix of the FROM table and "j" for that of the JOIN table
WithPrefixes(q) ==
    LET f == PrefixOf(q.from)
        j == IF q.joins = <<>> THEN <<"j">> ELSE PrefixOf(q.joins[1])
        P(ref) == Ref(IF ref.t = <<"f">> THEN f
                      ELSE IF ref.t = <<"j">> THEN j ELSE ref.t, ref.c)
    IN  Query(q.from,
              [k \in 1..Len(q.joins) |->
                  Join(q.joins[k].table, q.joins[k].alias,
                       [i \in 1..Len(q.joins[k].on) |->
                           Atom(P(q.joins[k].on[i].a), P(q.joins[k].on[i].b))])],
              {[c EXCEPT !.ref = P(c.ref)] : c \in q.where},
              [k \in 1..Len(q.group) |-> P(q.group[k])],
              Having(q.having.kind, P(q.having.col), q.having.n))

InitHaving ==
    /\ query \in {WithPrefixes(q) : q \in HavingQueries}
    /\ nodes = {}
    /\ edges = <<>>
    /\ aliases = <<>>
    /\ db \in [{Name(1), Name(2)} -> LoadedTables]
    /\ table_sizes = [t \in DOMAIN db |-> Count(db[t])]
    /\ pc = "ready"
    /\ bfs_order = <<>>
    /\ parent_of = <<>>
    /\ ops = <<>>
    /\ reductions = <<>>
    /\ pending = 0
    /\ failed = 0

ComputeHaving ==
    /\ pc = "ready"
    /\ LET r == compute_having_aware_reduction(db, table_sizes, query)
       IN  /\ reductions' = r.value
           /\ pc' = IF r.none THEN "not applicable" ELSE "estimated"
    /\ UNCHANGED <<pending, failed, query, db, table_sizes, nodes, edges, aliases, bfs_order,
                   parent_of, ops>>

NextHaving == ComputeHaving

SpecHaving == InitHaving /\ [][NextHaving]_vars

\* the number of distinct values of col among the join rows with key k
JoinDistinct(d, child, fk, parent, pk, col, k) ==
    IF \A r \in DOMAIN d[parent] : r[ColPos(parent, pk)] # k THEN 0
    ELSE Cardinality({r[ColPos(child, col)] :
                         r \in {x \in DOMAIN d[child] : x[ColPos(child, fk)] = k}})

\* the keys whose aggregated count, as the HAVING clause names it, meets
\* the threshold
NamedCountKeys(d, child, fk, parent, pk, q) ==
    {k \in {r[ColPos(parent, pk)] : r \in DOMAIN d[parent]} :
        LET cnt == IF q.having.kind = "distinct"
                   THEN JoinDistinct(d, child, fk, parent, pk, q.having.col.c, k)
                   ELSE JoinCount(d, child, fk, parent, pk, k)
        IN  cnt >= 1 /\ cnt >= q.having.n}


\* the child rows whose foreign key is one of keys
ChildRowsOf(d, child, fk, keys) ==
    SumOver(d[child], {r \in DOMAIN d[child] : r[ColPos(child, fk)] \in keys})

\* FROM child c JOIN parent p ON c.fk = p.pk GROUP BY p.<cols> HAVING
\* COUNT(...) >= N with N >= 1, over a parent whose key values are unique
ChildParentShape(q, d, kind) ==
    /\ q.from.alias # <<>>
    /\ q.joins[1].alias # <<>>
    /\ q.from.alias # q.joins[1].alias
    /\ q.joins[1].on[1] = Atom(Ref(q.from.alias, ChildFk),
                               Ref(q.joins[1].alias, ParentPk))
    /\ q.group # <<>>
    /\ \A k \in 1..Len(q.group) :
          q.group[k].t = q.joins[1].alias /\ q.group[k].c[1] = "b"
    /\ q.having.kind = kind
    /\ q.having.n >= 1
    /\ \A r1, r2 \in DOMAIN d[Name(2)] :
          r1[ColPos(Name(2), ParentPk)] = r2[ColPos(Name(2), ParentPk)] => r1 = r2

\* the result names exactly child and parent, with reduced counts taken
\* from keys and originals from the load-time sizes
ReportsKeys(keys) ==
    /\ pc = "estimated"
    /\ DOMAIN reductions = {Name(1), Name(2)}
    /\ reductions[Name(2)][1] = table_sizes[Name(2)]
    /\ reductions[Name(2)][2] = Cardinality(keys)
    /\ reductions[Name(1)][1] = table_sizes[Name(1)]
    /\ reductions[Name(1)][2] = ChildRowsOf(db, Name(1), ChildFk, keys)

\* C9: for FROM child c JOIN parent p ON c.fk = p.pk GROUP BY p.<cols>
\* HAVING COUNT(*) >= N the estimator returns, for exactly the two tables,
\* parent reduced = the number of parent keys with at least N joining child
\* rows and child reduced = the number of child rows with one of those
\* keys, the originals being the load-time sizes.
C9_HavingCountStar ==
    (pc # "ready" /\ ChildParentShape(query, db, "star"))
        => ReportsKeys(NamedCountKeys(db, Name(1), ChildFk, Name(2), ParentPk,
                                      query))

\* C10: for HAVING COUNT(DISTINCT col) >= N a parent key survives exactly
\* when the number of distinct values of col among its joining child rows
\* is at least N, and child reduced counts the child rows with those keys.
C10_HavingCountDistinct ==
    (/\ pc # "ready"
     /\ ChildParentShape(query, db, "distinct")
     /\ ~Contains(query.joins[1].alias, query.from.alias))
        => ReportsKeys(NamedCountKeys(db, Name(1), ChildFk, Name(2), ParentPk,
                                      query))

----------------------------------------------------------------------------
(* parse_join_graph.  The query is the baseline text in its base form: the *)
(* FROM table, the JOIN blocks in order and the equalities of each ON.      *)

Graph(ns, es, al) == [nodes |-> ns, edges |-> es, aliases |-> al]

\* self.aliases[table] = alias: a dict keeps the position of an existing key
SetAlias(al, table, alias) ==
    IF \E k \in 1..Len(al) : al[k][1] = table
    THEN [k \in 1..Len(al) |->
             IF al[k][1] = table THEN <<table, alias>> ELSE al[k]]
    ELSE Append(al, <<table, alias>>)

add_node(g, table, alias) ==
    Graph(g.nodes \cup {table}, g.edges,
          IF alias # <<>> /\ alias # table
          THEN SetAlias(g.aliases, table, alias) ELSE g.aliases)

add_edge(g, table1, table2, condition) ==
    Graph(g.nodes, Append(g.edges, Edge(table1, table2, condition)), g.aliases)

RECURSIVE AliasLookup(_, _, _)
AliasLookup(al, k, alias) ==
    IF k > Len(al) THEN <<>>
    ELSE IF al[k][2] = alias THEN al[k][1]
    ELSE AliasLookup(al, k + 1, alias)

\* the table of an alias, or <<>> for None
_alias_to_table(alias, g) ==
    IF AliasLookup(g.aliases, 1, alias) # <<>>
    THEN AliasLookup(g.aliases, 1, alias)
    ELSE IF alias \in g.nodes THEN alias ELSE <<>>

\* the loop over cond_parts of one JOIN block
RECURSIVE ParseParts(_, _, _, _)
ParseParts(g, on, k, join_cond) ==
    IF k > Len(on) THEN g
    ELSE LET alias1 == on[k].a.t
             alias2 == on[k].b.t
             t1 == _alias_to_table(alias1, g)
             t2 == _alias_to_table(alias2, g)
             cond_normalized ==
                 SubPrefix(SubPrefix(join_cond, alias1, t1), alias2, t2)
         IN  ParseParts(IF t1 # <<>> /\ t2 # <<>>
                        THEN add_edge(g, t1, t2, cond_normalized) ELSE g,
                        on, k + 1, join_cond)

\* the loop over the JOIN blocks that join_pattern matches: a block without
\* ON (a CROSS JOIN) is not matched and adds nothing to the graph
RECURSIVE ParseJoins(_, _, _)
ParseJoins(g, joins, k) ==
    IF k > Len(joins) THEN g
    ELSE ParseJoins(
             IF joins[k].on = <<>> THEN g
             ELSE ParseParts(add_node(g, joins[k].table, joins[k].alias),
                             joins[k].on, 1,
                             {joins[k].on[i] : i \in 1..Len(joins[k].on)}),
             joins, k + 1)

parse_join_graph(q) ==
    ParseJoins(IF q.from = <<>> THEN Graph({}, <<>>, <<>>)
               ELSE add_node(Graph({}, <<>>, <<>>), q.from.table, q.from.alias),
               q.joins, 1)

----------------------------------------------------------------------------
(* analyze_query, called by main for each query file in turn on the same   *)
(* QueryReducer over loaded tables a and b.                                 *)

\* if reductions:
UseEstimate_Never(r) == FALSE

UseEstimate(r) == ~r.none /\ DOMAIN r.value # {}

\* the else branch: pushdown, then yannakakis_reduction
StandardPath_ReducerFirst(d, sizes, q, ns, es, al, log) ==
    UNION {{[y EXCEPT !.db = p.db, !.ops = p.ops] :
               p \in _apply_local_predicates(y.db, y.ops, q, ns, al)} :
             y \in YannakakisRuns(d, sizes, ns, es, log)}

StandardPath(d, sizes, q, ns, es, al, log) ==
    UNION {YannakakisRuns(p.db, sizes, ns, es, p.ops) :
             p \in _apply_local_predicates(d, log, q, ns, al)}

AnalyzeQueries ==
    {NoQuery} \cup
    {WithPrefixes(Query(f, j, w, gh[1], gh[2])) :
        f \in {TableRef(Name(1), al) : al \in {<<"x">>, <<>>}},
        j \in {<<>>} \cup
              {<<Join(Name(2), al, on)>> :
                  al \in {<<"y">>},
                  on \in {<<Atom(Ref(<<"f">>, <<"a", 1>>), Ref(<<"j">>, <<"b", 1>>))>>,
                          <<Atom(Ref(<<"f">>, <<"a", 1>>), Ref(<<"j">>, <<"b", 1>>)),
                            Atom(Ref(<<"f">>, <<"a", 2>>), Ref(<<"j">>, <<"b", 2>>))>>}},
        w \in {{}, {Cmp(Ref(<<"f">>, <<"a", 2>>), 1)},
                   {Cmp(Ref(<<"j">>, <<"b", 2>>), 1)}},
        gh \in {<<<<>>, NoHaving>>} \cup
               {<<<<Ref(<<"j">>, <<"b", 1>>)>>,
                  Having("star", NoRef, MaxCount)>>}}
    \cup
    {WithPrefixes(Query(f, <<Join(Name(2), <<"y">>, <<>>)>>, w, <<>>, NoHaving)) :
        f \in {TableRef(Name(1), al) : al \in {<<"x">>, <<>>}},
        w \in {{}, {Cmp(Ref(<<"f">>, <<"a", 2>>), 1)}}}

\* load_data_dynamic creates a table per CSV file; a file that fails to
\* load (or that the directory lacks) leaves the backend without its table
InitAnalyze ==
    /\ \E loaded \in {{Name(1), Name(2)}, {Name(1)}} :
          db \in [loaded -> LoadedTables]
    /\ table_sizes = [t \in DOMAIN db |-> Count(db[t])]
    /\ nodes = {}
    /\ edges = <<>>
    /\ aliases = <<>>
    /\ query = NoQuery
    /\ pending \in 1..MaxQueries
    /\ failed = 0
    /\ pc = "main"
    /\ bfs_order = <<>>
    /\ parent_of = <<>>
    /\ ops = <<>>
    /\ reductions = <<>>

\* where control goes when analyze_query raises: main's except clauses
\* print the error and the for loop goes on with the next file
main_except_Propagate == "aborted"

main_except == "main"

\* main takes the next query file; analyze_query reads it (open raises when
\* the file is missing or unreadable) and parses its join graph
AnalyzeStart ==
    /\ pc = "main"
    /\ pending > 0
    /\ pending' = pending - 1
    /\ \E readable \in BOOLEAN : \E q \in AnalyzeQueries :
          LET g == IF readable THEN parse_join_graph(q)
                   ELSE parse_join_graph(NoQuery)
          IN  /\ query' = IF readable THEN q ELSE NoQuery
              /\ nodes' = g.nodes
              /\ edges' = g.edges
              /\ aliases' = g.aliases
              /\ pc' = IF ~readable THEN "raised"
                       ELSE IF g.nodes = {} THEN "main" ELSE "fold"
    /\ ops' = <<>>
    /\ reductions' = <<>>
    /\ bfs_order' = <<>>
    /\ parent_of' = <<>>
    /\ UNCHANGED <<db, table_sizes, failed>>

\* except FileNotFoundError / except Exception in main's loop
MainExcept ==
    /\ pc = "raised"
    /\ pc' = main_except
    /\ failed' = failed + 1
    /\ UNCHANGED <<pending, query, db, table_sizes, nodes, edges, aliases,
                   bfs_order, parent_of, ops, reductions>>

\* reductions = self.compute_having_aware_reduction(baseline_query)
AnalyzeEstimate ==
    /\ pc = "folded"
    /\ LET r == compute_having_aware_reduction(db, table_sizes, query)
       IN  /\ pc' = IF UseEstimate(r) THEN "estimated" ELSE "standard"
           /\ reductions' = IF ~r.none THEN r.value ELSE reductions
    /\ UNCHANGED <<pending, failed, query, db, table_sizes, nodes, edges,
                   aliases, bfs_order, parent_of, ops>>

AnalyzeStandard ==
    /\ pc = "standard"
    /\ \E run \in StandardPath(db, table_sizes, query, nodes, edges,
                                aliases, ops) :
          /\ db' = run.db
          /\ ops' = run.ops
          /\ bfs_order' = run.order
          /\ parent_of' = run.parent
          /\ reductions' = run.reductions
    /\ pc' = "reduced"
    /\ UNCHANGED <<pending, failed, query, table_sizes, nodes, edges, aliases>>

\* the report is printed and analyze_query returns to main
AnalyzeReport ==
    /\ pc \in {"estimated", "reduced"}
    /\ pc' = "main"
    /\ UNCHANGED <<pending, failed, query, db, table_sizes, nodes, edges, aliases,
                   bfs_order, parent_of, ops, reductions>>

NextAnalyze ==
    \/ AnalyzeStart
    \/ FoldStep
    \/ FoldReturn
    \/ AnalyzeEstimate
    \/ AnalyzeStandard
    \/ AnalyzeReport
    \/ MainExcept

SpecAnalyze == InitAnalyze /\ [][NextAnalyze]_vars

\* the batch over one data directory: tables a and b as loaded
InitMain ==
    /\ db \in [{Name(1), Name(2)} -> {FoldTable, SetToTable({<<1, 1>>})}]
    /\ table_sizes = [t \in DOMAIN db |-> Count(db[t])]
    /\ nodes = {}
    /\ edges = <<>>
    /\ aliases = <<>>
    /\ query = NoQuery
    /\ pending \in 1..MaxQueries
    /\ failed = 0
    /\ pc = "main"
    /\ bfs_order = <<>>
    /\ parent_of = <<>>
    /\ ops = <<>>
    /\ reductions = <<>>

\* main is sequential code: at the head of the for loop with a file left
\* the next file is taken, and an except clause that has caught an error
\* runs to its end
SpecMainFair ==
    InitMain /\ [][NextAnalyze]_vars
        /\ WF_vars(AnalyzeStart) /\ WF_vars(MainExcept)


\* the statements of kind that the running analysis has issued
OpsOfKind(kind) == {i \in 1..Len(ops) : ops[i].op = kind}

\* C7: within one analysis every pushdown filter is issued before the first
\* semi-join of the reducer, and none after a semi-join; the reducer only
\* runs in the step that has run selection pushdown first.
C7_PushdownBeforeSemiJoins ==
    /\ \A i \in OpsOfKind("pushdown") : \A j \in OpsOfKind("semi") : i < j
    /\ OpsOfKind("semi") # {} => pc \in {"reduced", "main"}

C7_Witness ==
    /\ pc = "reduced"
    /\ OpsOfKind("pushdown") # {}
    /\ OpsOfKind("semi") # {}
    /\ \E t \in nodes : reductions[t][2] < reductions[t][1]
    /\ \E i \in OpsOfKind("pushdown") :
          Count(db[ops[i].left]) < table_sizes[ops[i].left]

\* C8: the estimator is tried before the standard path.  When it returns a
\* result the analysis reports exactly that result and issues no pushdown
\* filter and no semi-join; when it returns not-applicable the analysis
\* runs the standard path and reports the reducer's statistics.
C8_EstimatorBeforeStandardPath ==
    LET r == compute_having_aware_reduction(db, table_sizes, query)
    IN  /\ pc = "estimated" =>
              /\ ~r.none
              /\ reductions = r.value
              /\ OpsOfKind("pushdown") = {} /\ OpsOfKind("semi") = {}
        /\ pc \in {"standard", "reduced"} => r.none
        /\ pc = "reduced" => reductions = Stats(db, table_sizes, nodes)

C8_Witness ==
    /\ pc = "estimated"
    /\ \E t \in DOMAIN reductions : reductions[t][2] < reductions[t][1]
    /\ \E t \in DOMAIN reductions : reductions[t][2] > 0

----------------------------------------------------------------------------
(* Reduction percentages reported by analyze_query.                         *)

\* a percentage <<num, den>> lies in [0, 100]
InRange(pct) == 0 <= pct[1] /\ pct[1] <= 100 * pct[2]

\* C11 as stated: every reported entry has its percentage in [0, 100], and
\* the percentage is 0.0 exactly when the original size is 0.
C11_AsStated ==
    \A t \in DOMAIN reductions :
        /\ InRange(reductions[t][3])
        /\ reductions[t][3][1] = 0 <=> reductions[t][1] = 0

\* C11: every reported entry (original, reduced, percent) has its percentage
\* in [0, 100]; the percentage is 0.0 whenever the original size is 0 (no
\* division takes place then), and otherwise it is
\* (original - reduced) / original * 100, which is 0.0 exactly when nothing
\* was removed.
C11_PercentInRange ==
    \A t \in DOMAIN reductions :
        LET original == reductions[t][1]
            reduced == reductions[t][2]
            pct == reductions[t][3]
        IN  /\ InRange(pct)
            /\ original = 0 => pct = <<0, 1>>
            /\ original > 0 =>
                  /\ pct[2] = original
                  /\ pct[1] = (original - reduced) * 100
                  /\ pct[1] = 0 <=> reduced = original

C11_Witness ==
    /\ pc \in {"estimated", "reduced"}
    /\ \E t \in DOMAIN reductions :
          reductions[t][1] > 0 /\ reductions[t][2] < reductions[t][1]
    /\ \E t \in DOMAIN reductions : reductions[t][1] = 0

----------------------------------------------------------------------------
(* The tables created at load time, across a batch of analyses.             *)

\* bag s holds a subset of the rows of bag t
SubTable(s, t) ==
    /\ DOMAIN s \subseteq DOMAIN t
    /\ \A r \in DOMAIN s : s[r] <= t[r]

C13_TableSizesImmutable ==
    /\ \A t \in DOMAIN table_sizes : table_sizes[t] = Count(db[t])
    /\ [][table_sizes' = table_sizes]_vars
    /\ [](\A t \in DOMAIN reductions :
              t \in DOMAIN table_sizes => reductions[t][1] = table_sizes[t])

C13_Witness ==
    /\ pc = "reduced"
    /\ \A t \in DOMAIN table_sizes :
          /\ t \in DOMAIN reductions
          /\ reductions[t][2] < reductions[t][1]
          /\ Count(db[t]) < table_sizes[t]

----------------------------------------------------------------------------
(* The JoinGraph invariant. *)

----------------------------------------------------------------------------
(* The batch loop of main. *)

\* C15: an error raised while a query file is read or analysed never aborts
\* the run: main catches it and reports it for that file, control returns
\* to the head of the loop with the remaining files untouched, and from
\* there the next file of the list is taken.
C15_BadQueryNeverAbortsRun ==
    /\ [](pc # "aborted")
    /\ [][pc = "raised" => (pc' = "main" /\ failed' = failed + 1
                            /\ pending' = pending)]_vars
    /\ \A n \in 0..MaxQueries :
          (pc = "raised" /\ pending = n) ~> (pc = "main" /\ pending = n)
    /\ \A n \in 1..MaxQueries :
          (pc = "main" /\ pending = n) ~> (pending = n - 1)

C15_Witness ==
    /\ failed > 0
    /\ pc = "reduced"
    /\ \E t \in DOMAIN reductions : reductions[t][2] < reductions[t][1]

----------------------------------------------------------------------------
(* Backend errors inside a step of the analysis. *)

\* the backend raises on the statement of op when run on d
Raises(d, op) ==
    CASE op.op = "semi" -> ~Executes(d, op)
      [] op.op = "pushdown" ->
            op.left \notin DOMAIN d \/ ~PredBinds(d, op.left, op.cond)
      [] OTHER ->
            \/ op.left \o op.right \in DOMAIN d
            \/ op.left \notin DOMAIN d
            \/ op.right \notin DOMAIN d
            \/ ~FoldBinds(op.cond, op.left, op.right)

\* the statements a step adds to the log
NewOps == {ops'[i] : i \in (Len(ops) + 1)..Len(ops')}

----------------------------------------------------------------------------
(* Tables without neighbours in the reducer. *)

ZeroNeighbours(t) == get_neighbors(edges, t) = {}

----------------------------------------------------------------------------
(* Queries with a CROSS JOIN. *)

\* re.search(r'\bCROSS\s+JOIN\b', baseline_query)
HasCrossJoin(q) == \E k \in 1..Len(q.joins) : q.joins[k].on = <<>>

\* the tables the query reads
QueryTables(q) ==
    (IF q.from = <<>> THEN {} ELSE {q.from.table})
        \cup {q.joins[k].table : k \in 1..Len(q.joins)}

\* C18: for a baseline query with a CROSS JOIN no step of the analysis
\* reduces a table of the query, and the report lists every table of the
\* query at its full original size with 0% reduction.
C18_CrossJoinReportedAtFullSize ==
    /\ [][HasCrossJoin(query) =>
             \A t \in QueryTables(query) \cap DOMAIN db :
                 t \in DOMAIN db' /\ db'[t] = db[t]]_vars
    /\ []((HasCrossJoin(query) /\ pc \in {"estimated", "reduced"}) =>
             \A t \in QueryTables(query) \cap DOMAIN table_sizes :
                 /\ t \in DOMAIN reductions
                 /\ reductions[t][1] = table_sizes[t]
                 /\ reductions[t][2] = table_sizes[t]
                 /\ reductions[t][3][1] = 0)

----------------------------------------------------------------------------
(* _extract_base_query.  Here a query text is the sequence of its tokens:   *)
(* keywords, names, "(" and ")"; white space separates the tokens.          *)

\* the texts the character scan takes for the keyword FROM: query[i:i+4] is
\* "FROM" and the characters around it are not letters, which is also true
\* of the last four characters of the column name valid_from
FromLike == {"FROM", "valid_from"}

\* the walk at depth 0 for the top-level FROM; 0 when there is none
RECURSIVE FindFrom(_, _, _)
FindFrom(text, i, depth) ==
    IF i > Len(text) THEN 0
    ELSE IF text[i] = "(" THEN FindFrom(text, i + 1, depth + 1)
    ELSE IF text[i] = ")" THEN FindFrom(text, i + 1, depth - 1)
    ELSE IF depth = 0 /\ text[i] \in FromLike THEN i
    ELSE FindFrom(text, i + 1, depth)

\* while j < len(query) and depth > 0: the position after the matching ")"
RECURSIVE AfterClose(_, _, _)
AfterClose(text, j, depth) ==
    IF j > Len(text) \/ depth = 0 THEN j
    ELSE AfterClose(text, j + 1,
             IF text[j] = "(" THEN depth + 1
             ELSE IF text[j] = ")" THEN depth - 1 ELSE depth)

\* re.search(r'\bJOIN\s+\w', rest_of_query)
HasTableJoin(rest) ==
    \E i \in 1..(Len(rest) - 1) :
        rest[i] = "JOIN" /\ rest[i + 1] \notin {"(", ")"}

RECURSIVE _extract_base_query(_)
_extract_base_query(text) ==
    LET from_pos == FindFrom(text, 1, 0)
        j == AfterClose(text, from_pos + 2, 1)
        inner == SubSeq(text, from_pos + 2, j - 2)
        rest_of_query == SubSeq(text, j, Len(text))
    IN  IF from_pos = 0 THEN text
        ELSE IF from_pos + 1 > Len(text) \/ text[from_pos + 1] # "("
        THEN text
        ELSE IF HasTableJoin(rest_of_query) THEN text
        ELSE _extract_base_query(inner)

----------------------------------------------------------------------------
(* _extract_base_query on its own, on query texts with up to MaxWrap        *)
(* layers of SELECT ... FROM ( ... ) t around a base query.                 *)

MaxWrap == 2

SelectLists ==
    {<<"SELECT", "*">>, <<"SELECT", "valid_from">>,
     <<"SELECT", "(", "SELECT", "1", ")">>}

BaseTexts ==
    {<<"SELECT", "1">>}
    \cup {sel \o <<"FROM", "foo">> \o j :
             sel \in SelectLists, j \in {<<>>, <<"JOIN", "bar", "ON", "c">>}}

\* what follows the wrapper's subquery: nothing, a JOIN with a table, a JOIN
\* with a subquery, a WHERE whose subquery holds a JOIN
Tails ==
    {<<>>,
     <<"JOIN", "bar", "ON", "c">>,
     <<"JOIN", "(", "SELECT", "*", "FROM", "bar", ")", "b", "ON", "c">>,
     <<"WHERE", "x", "IN", "(", "SELECT", "*", "FROM", "baz",
       "JOIN", "qux", "ON", "c", ")">>}

RECURSIVE QueryTexts(_)
QueryTexts(n) ==
    IF n = 0 THEN BaseTexts
    ELSE QueryTexts(n - 1)
         \cup {sel \o <<"FROM", "(">> \o q \o <<")", "t">> \o tail :
                  sel \in SelectLists, q \in QueryTexts(n - 1), tail \in Tails}

InitExtract ==
    /\ query \in QueryTexts(MaxWrap)
    /\ pc = "ready"
    /\ db = <<>>
    /\ table_sizes = <<>>
    /\ nodes = {}
    /\ edges = <<>>
    /\ aliases = <<>>
    /\ bfs_order = <<>>
    /\ parent_of = <<>>
    /\ ops = <<>>
    /\ reductions = <<>>
    /\ pending = 0
    /\ failed = 0

\* query = self._extract_base_query(query)
ExtractBase ==
    /\ pc = "ready"
    /\ query' = _extract_base_query(query)
    /\ pc' = "extracted"
    /\ UNCHANGED <<pending, failed, db, table_sizes, nodes, edges, aliases,
                   bfs_order, parent_of, ops, reductions>>

NextExtract == ExtractBase

SpecExtract == InitExtract /\ [][NextExtract]_vars

\* the nesting depth of position i
RECURSIVE DepthAt(_, _)
DepthAt(text, i) ==
    IF i <= 1 THEN 0
    ELSE DepthAt(text, i - 1)
         + (IF text[i - 1] = "(" THEN 1 ELSE IF text[i - 1] = ")" THEN -1 ELSE 0)

\* the positions of the keyword kw at nesting depth 0
TopLevel(text, kw) ==
    {i \in 1..Len(text) : text[i] = kw /\ DepthAt(text, i) = 0}

\* the descent as the claim words it
RECURSIVE ExtractAsClaimed(_)
ExtractAsClaimed(text) ==
    IF TopLevel(text, "FROM") = {} THEN text
    ELSE LET f == CHOOSE i \in TopLevel(text, "FROM") :
                      \A k \in TopLevel(text, "FROM") : i <= k
             close == CHOOSE i \in (f + 2)..Len(text) :
                          /\ text[i] = ")" /\ DepthAt(text, i) = 1
                          /\ \A k \in (f + 2)..(i - 1) :
                                ~(text[k] = ")" /\ DepthAt(text, k) = 1)
         IN  IF f + 1 > Len(text) \/ text[f + 1] # "(" THEN text
             ELSE IF TopLevel(SubSeq(text, close + 1, Len(text)), "JOIN") # {}
             THEN text
             ELSE ExtractAsClaimed(SubSeq(text, f + 2, close - 1))

\* C19: _extract_base_query descends into the subquery that follows the
\* depth-0 FROM exactly when no JOIN keyword appears at the same nesting
\* depth after the subquery closes, repeating on the subquery body, and
\* returns the text unchanged in every other case.
C19_DescendsIffNoSiblingJoin ==
    [][(pc = "ready" /\ pc' = "extracted")
          => query' = ExtractAsClaimed(query)]_vars

\* ---------------------------------------------------------------------
\* remove_llm_calls on query texts.  A text is a sequence of tokens that the
\* source text separates by white space: words (keywords, names, function
\* names), "," and "*", and Args, the argument list "('{p}', '{m}')" with
\* its two brace groups.  A call is a function name followed by Args.
\* ---------------------------------------------------------------------

Args == "('{p}', '{m}')"

\* llm_funcs, in the order of the loop
llm_funcs ==
    <<"llm_complete", "llm_reduce", "llm_rerank", "llm_first", "llm_last",
      "llm_embedding">>

\* \w+ matches the token from its first character to its end
IsWord(tok) == tok \notin {",", "*", Args}

\* text[i..i+Len(pat)-1] = pat
MatchAt(text, i, pat) ==
    /\ i + Len(pat) - 1 <= Len(text)
    /\ \A k \in 1..Len(pat) : text[i + k - 1] = pat[k]

\* re.sub(pat, repl, text) for a pattern that is a fixed run of tokens: one
\* pass from the left over non-overlapping matches.  The pattern of Case 1
\* starts with \s+ and so cannot match at the start of the text.
RECURSIVE SubRun(_, _, _, _, _)
SubRun(text, i, pat, repl, needsBefore) ==
    IF i > Len(text) THEN <<>>
    ELSE IF MatchAt(text, i, pat) /\ (needsBefore => i > 1)
         THEN repl \o SubRun(text, i + Len(pat), pat, repl, needsBefore)
         ELSE <<text[i]>> \o SubRun(text, i + 1, pat, repl, needsBefore)

\* ,?\s*func\s*\(...\)\s+AS\s+\w+   matched at position i; the result is the
\* number of tokens matched, 0 for no match
ProjectionAt(text, i, func) ==
    IF /\ MatchAt(text, i, <<",", func, Args, "AS">>)
       /\ i + 4 <= Len(text)
       /\ IsWord(text[i + 4])
    THEN 5
    ELSE IF /\ MatchAt(text, i, <<func, Args, "AS">>)
            /\ i + 3 <= Len(text)
            /\ IsWord(text[i + 3])
         THEN 4
         ELSE 0

\* query = re.sub(pattern, '', query)  for one func
RECURSIVE SubProjection(_, _, _)
SubProjection(text, i, func) ==
    IF i > Len(text) THEN <<>>
    ELSE IF ProjectionAt(text, i, func) > 0
         THEN SubProjection(text, i + ProjectionAt(text, i, func), func)
         ELSE <<text[i]>> \o SubProjection(text, i + 1, func)

\* for func in llm_funcs: ...
RECURSIVE SubProjections(_, _)
SubProjections(text, k) ==
    IF k > Len(llm_funcs) THEN text
    ELSE SubProjections(SubProjection(text, 1, llm_funcs[k]), k + 1)

remove_llm_calls(query0) ==
    LET case1 == SubRun(query0, 1, <<"AND", "llm_filter", Args>>, <<>>, TRUE)
        case2 == SubRun(case1, 1, <<"WHERE", "llm_filter", Args, "AND">>,
                        <<"WHERE">>, FALSE)
        case3 == SubRun(case2, 1, <<"WHERE", "llm_filter", Args>>, <<>>, FALSE)
        noproj == SubProjections(case3, 1)
        c1 == SubRun(noproj, 1, <<",", "FROM">>, <<"FROM">>, FALSE)
        c2 == SubRun(c1, 1, <<",", "GROUP BY">>, <<"GROUP BY">>, FALSE)
        c3 == SubRun(c2, 1, <<",", "ORDER BY">>, <<"ORDER BY">>, FALSE)
    IN SubRun(c3, 1, <<"SELECT", "FROM">>, <<"SELECT", "*", "FROM">>, FALSE)

\* the longest select list of the texts
MaxSelect == 5

SelectTokens == {"a", ",", "llm_complete", "llm_reduce", Args, "AS"}

RECURSIVE TokenRuns(_)
TokenRuns(n) ==
    IF n = 0 THEN {<<>>}
    ELSE TokenRuns(n - 1)
         \cup {Append(r, tok) : r \in {s \in TokenRuns(n - 1) : Len(s) = n - 1},
                                tok \in SelectTokens}

\* the WHERE clauses of the texts: none, the filter alone, the filter after
\* and before a condition, two filters, and the filter under OR
WhereClauses ==
    {<<>>,
     <<"WHERE", "llm_filter", Args>>,
     <<"WHERE", "x", "AND", "llm_filter", Args>>,
     <<"WHERE", "llm_filter", Args, "AND", "x">>,
     <<"WHERE", "llm_filter", Args, "AND", "llm_filter", Args>>,
     <<"WHERE", "x", "OR", "llm_filter", Args>>}

StripTexts ==
    {<<"SELECT">> \o sel \o <<"FROM", "t">> \o w :
        sel \in TokenRuns(MaxSelect), w \in WhereClauses}

InitStrip ==
    /\ query \in StripTexts
    /\ pc = "ready"
    /\ db = <<>>
    /\ table_sizes = <<>>
    /\ nodes = {}
    /\ edges = <<>>
    /\ aliases = <<>>
    /\ bfs_order = <<>>
    /\ parent_of = <<>>
    /\ ops = <<>>
    /\ reductions = <<>>
    /\ pending = 0
    /\ failed = 0

\* baseline_query = self.remove_llm_calls(original_query)
StripCalls ==
    /\ pc = "ready"
    /\ query' = remove_llm_calls(query)
    /\ pc' = "stripped"
    /\ UNCHANGED <<pending, failed, db, table_sizes, nodes, edges, aliases,
                   bfs_order, parent_of, ops, reductions>>

NextStrip == StripCalls

SpecStrip == InitStrip /\ [][NextStrip]_vars

\* a call of an augmented function: its name followed by an argument list
HasLlmCall(text) ==
    \E i \in 1..(Len(text) - 1) :
        /\ text[i] \in {"llm_filter"} \cup {llm_funcs[k] : k \in 1..Len(llm_funcs)}
        /\ text[i + 1] = Args

\* C20: remove_llm_calls is a fixed point on its own output: for every query
\* text q, remove_llm_calls(remove_llm_calls(q)) equals remove_llm_calls(q),
\* and no augmented-function call remains in the output.
C20_StripIsFixedPointWithoutCalls ==
    pc = "stripped" =>
        /\ remove_llm_calls(query) = query
        /\ ~HasLlmCall(query)

----------------------------------------------------------------------------
(* The reducer on larger graphs: yannakakis_reduction(graph) called on a    *)
(* graph of up to MaxTreeNodes tables, a forest or a forest with one more   *)
(* edge, and then called a second time on the same graph.                   *)

MaxTreeNodes == 4  \* tables of a join graph in the inputs of the two passes

\* graphs in which table n joins at most one earlier table, on column 1
RECURSIVE TreeEdges(_)
TreeEdges(n) ==
    IF n <= 1 THEN {<<>>}
    ELSE {es \o x : es \in TreeEdges(n - 1),
                    x \in {<<>>} \cup
                          {<<Edge(Name(i), Name(n), EquiCond(i, 1, n, 1))>> :
                              i \in 1..(n - 1)}}

\* one more edge from an earlier table to the last one, on column 2, which
\* may close a cycle
ExtraEdges(n) ==
    {<<>>} \cup
    {<<Edge(Name(i), Name(n), EquiCond(i, 2, n, 2))>> : i \in 1..(n - 1)}

\* loaded tables: three rows, a row held twice, a single row
ReducerTables ==
    {FoldTable,
     [r \in {<<1, 1>>, <<2, 2>>} |-> IF r = <<1, 1>> THEN 2 ELSE 1],
     SetToTable({<<2, 1>>})}

InitReducer ==
    /\ \E n \in 0..MaxTreeNodes :
          /\ nodes = {Name(i) : i \in 1..n}
          /\ \E es \in TreeEdges(n), x \in ExtraEdges(n) : edges = es \o x
    /\ db \in [nodes -> ReducerTables]
    /\ table_sizes = [t \in nodes |-> Count(db[t])]
    /\ aliases = <<>>
    /\ pc = "ready"
    /\ bfs_order = <<>>
    /\ parent_of = <<>>
    /\ ops = <<>>
    /\ query = NoQuery
    /\ reductions = <<>>
    /\ pending = 0
    /\ failed = 0

\* reducer.yannakakis_reduction(graph) once more on the same graph
YannakakisAgain ==
    /\ pc = "done"
    /\ \E run \in YannakakisRuns(db, table_sizes, nodes, edges, <<>>) :
          /\ db' = run.db
          /\ ops' = run.ops
          /\ bfs_order' = run.order
          /\ parent_of' = run.parent
          /\ reductions' = run.reductions
    /\ pc' = "again"
    /\ UNCHANGED <<pending, failed, query, table_sizes, nodes, edges, aliases>>

NextReducer == Yannakakis \/ YannakakisAgain

SpecReducer == InitReducer /\ [][NextReducer]_vars

\* the nodes after the root, in BFS order
NonRoot == Tail(bfs_order)

\* the semi-join  left |>< right  of the reducer
IsSemi(op, left, right) ==
    op.op = "semi" /\ op.left = left /\ op.right = right

\* C21: yannakakis_reduction issues its semi-joins in two passes: first, for
\* each non-root node in reverse BFS order, parent |>< node (the parent is
\* reduced); only after all of these, for each non-root node in forward BFS
\* order, node |>< parent (the node is reduced).  No top-down semi-join
\* precedes a bottom-up one, a node reduces its parent only after all of the
\* node's own children have reduced it, and the root is never the left
\* operand of a top-down semi-join.
C21_TwoPassesInOrder ==
    pc \in {"done", "again"} =>
        LET k == Len(bfs_order) - 1
        IN  /\ bfs_order # <<>> => Len(ops) = 2 * k
            /\ bfs_order = <<>> => ops = <<>>
            /\ \A i \in 1..k :
                  LET node == NonRoot[k + 1 - i]
                  IN  IsSemi(ops[i], parent_of[node], node)
            /\ \A i \in 1..k :
                  LET node == NonRoot[i]
                  IN  /\ IsSemi(ops[k + i], node, parent_of[node])
                      /\ ops[k + i].left # bfs_order[1]
            /\ \A i \in 1..k : \A j \in 1..k :
                  (parent_of[ops[j].right] = ops[i].right) => j < i

C21_Witness ==
    /\ pc = "done"
    /\ Len(bfs_order) = 4
    /\ \E t \in nodes :
          /\ parent_of[t] # NoParent
          /\ parent_of[parent_of[t]] # NoParent
    /\ \E t \in nodes : Count(db[t]) < table_sizes[t]
    /\ \A t \in nodes : db[t] # EmptyTable

\* C22: in the BFS spanning tree built by yannakakis_reduction, the root is
\* first in BFS order and has no parent, no node occurs twice in the order,
\* and every other visited node has a recorded parent that is one of its
\* neighbours in the graph and occurs strictly earlier in the BFS order.
C22_BfsTreeWellFormed ==
    (pc \in {"done", "again"} /\ nodes # {}) =>
        /\ bfs_order # <<>>
        /\ parent_of[bfs_order[1]] = NoParent
        /\ \A i \in 1..Len(bfs_order) : \A j \in 1..Len(bfs_order) :
              bfs_order[i] = bfs_order[j] => i = j
        /\ \A i \in 2..Len(bfs_order) :
              LET node == bfs_order[i]
              IN  /\ node \in DOMAIN parent_of
                  /\ parent_of[node] \in get_neighbors(edges, node)
                  /\ \E j \in 1..(i - 1) : bfs_order[j] = parent_of[node]

C22_Witness ==
    /\ pc = "done"
    /\ Len(bfs_order) = 4
    /\ Len(edges) = 4
    /\ \E t \in nodes : Cardinality({u \in nodes : parent_of[u] = t}) = 2
    /\ \E t \in nodes : parent_of[t] # NoParent /\ parent_of[parent_of[t]] # NoParent

----------------------------------------------------------------------------
(* One fold step. *)

\* the endpoint t after tables T1 and T2 have been merged into J
Redirected(t, T1, T2, J) == IF t \in {T1, T2} THEN J ELSE t

\* the edges of es other than those between T1 and T2, in order
RECURSIVE OtherEdges(_, _, _)
OtherEdges(es, T1, T2) ==
    IF es = <<>> THEN <<>>
    ELSE IF {Head(es).t1, Head(es).t2} = {T1, T2}
         THEN OtherEdges(Tail(es), T1, T2)
         ELSE <<Head(es)>> \o OtherEdges(Tail(es), T1, T2)

\* C23: one successful fold step on tables T1 and T2 removes T1 and T2 from
\* nodes and adds the composite node, drops every edge whose endpoints are
\* exactly {T1, T2}, redirects every other edge that had T1 or T2 as an
\* endpoint to the composite node, and keeps all edges between other tables
\* with their endpoints unchanged; the node count decreases by exactly one.
C23_FoldStepRewritesGraph ==
    [][(pc = "fold" /\ pc' = "fold") =>
          LET T1 == ops'[Len(ops')].left
              T2 == ops'[Len(ops')].right
              J == T1 \o T2
              other == OtherEdges(edges, T1, T2)
          IN  /\ nodes' = (nodes \ {T1, T2}) \cup {J}
              /\ Cardinality(nodes') = Cardinality(nodes) - 1
              /\ Len(edges') = Len(other)
              /\ \A k \in 1..Len(other) :
                    /\ edges'[k].t1 = Redirected(other[k].t1, T1, T2, J)
                    /\ edges'[k].t2 = Redirected(other[k].t2, T1, T2, J)]_vars

----------------------------------------------------------------------------
(* The graph handed to the reducer. *)

\* C24: whenever analyze_query hands a graph to the semi-join reducer,
\* is_cyclic() is false for that graph: the fold step has turned every cyclic
\* graph into an acyclic one before the reducer starts, for every query of a
\* batch (including a query analysed after an earlier query of the same run
\* was folded).
C24_ReducerGetsAcyclicGraph ==
    pc = "standard" => ~is_cyclic(nodes, edges)

----------------------------------------------------------------------------
(* Termination of fold_cyclic_graph. *)

\* the loop is sequential code: an iteration that has started runs to its
\* end, and a false loop condition returns
SpecFoldFair ==
    InitFold /\ [][NextFold]_vars /\ WF_vars(FoldStep) /\ WF_vars(FoldReturn)

\* the loaded tables that the nodes of the graph stand for: a composite node
\* table1_JOIN_table2 stands for the tables of table1 and of table2
BaseTablesOf(ns) == UNION {{<<t[i]>> : i \in 1..Len(t)} : t \in ns}

\* C25: fold_cyclic_graph terminates on every input graph: each loop
\* iteration either strictly decreases the number of nodes or leaves the loop
\* (no neighbours, no retrievable condition, or a failed fold step), so the
\* loop runs at most as many times as the graph has nodes.  Every iteration
\* that stays in the loop has issued one CREATE TABLE, so the iterations run
\* so far and the nodes left never add up to more than the tables the graph
\* started with.
C25_FoldTerminates ==
    /\ [][pc = "fold" =>
             /\ Len(ops') <= Len(ops) + 1
             /\ pc' = "fold" =>
                   /\ Cardinality(nodes') < Cardinality(nodes)
                   /\ Len(ops') = Len(ops) + 1]_vars
    /\ [](pc = "fold" =>
             Len(ops) + Cardinality(nodes) <= Cardinality(BaseTablesOf(nodes)))
    /\ <>(pc \in {"folded", "raised"})

C25_Witness ==
    /\ pc = "folded"
    /\ Len(ops) = 2
    /\ Cardinality(nodes) = 1
    /\ edges = <<>>
    /\ \E t \in nodes : Len(t) = 3 /\ t \in DOMAIN db

----------------------------------------------------------------------------
(* The frame of semi_join: the call on a backend that also holds tables     *)
(* other than its two operands.                                             *)

\* tables loaded besides a and b: c, and a table whose file is a_reduced.csv
OtherTables == {Name(3), Append(Name(1), "_reduced")}

InitSemiJoinFrame ==
    /\ \E ta \in ReducerTables, tb \in ReducerTables, other \in SUBSET OtherTables :
          db = [t \in {Name(1), Name(2)} \cup other |->
                   IF t = Name(1) THEN ta
                   ELSE IF t = Name(2) THEN tb ELSE FoldTable]
    /\ table_sizes = [t \in DOMAIN db |-> Count(db[t])]
    /\ nodes = {}
    /\ edges = <<>>
    /\ aliases = <<>>
    /\ pc = "ready"
    /\ bfs_order = <<>>
    /\ parent_of = <<>>
    /\ ops = <<>>
    /\ query = NoQuery
    /\ reductions = <<>>
    /\ pending = 0
    /\ failed = 0

SpecSemiJoinFrame == InitSemiJoinFrame /\ [][NextSemiJoin]_vars

\* C26: semi_join(L, R, cond) changes no backend table other than L, whether
\* it succeeds or fails: R and every other existing table hold the same rows
\* afterwards and no additional table remains in the backend after a
\* successful call.
C26_SemiJoinChangesOnlyLeft ==
    [][(pc = "ready" /\ pc' = "called") =>
          LET op == ops'[Len(ops')]
          IN  /\ \A t \in DOMAIN db \ {op.left} :
                    t \in DOMAIN db' /\ db'[t] = db[t]
              /\ Executes(db, op) => DOMAIN db' = DOMAIN db]_vars

----------------------------------------------------------------------------
(* Nodes the BFS does not reach. *)

\* the nodes not connected to root by a path of edges
Unreached(root) == nodes \ Reach(edges, {root})

----------------------------------------------------------------------------
(* The tables selection pushdown replaces. *)

\* C28: every backend table that _apply_local_predicates replaces is a node
\* of the graph it was given, also when that graph has been folded before
\* pushdown runs (tables merged into a composite node are no longer filtered
\* on their own).
C28_PushdownReplacesOnlyNodes ==
    [][\A op \in NewOps :
          (op.op = "pushdown" /\ ~Raises(db, op)) => op.left \in nodes]_vars

----------------------------------------------------------------------------
(* The reducer run twice. *)

\* C29: the full reduction is idempotent: running yannakakis_reduction a
\* second time on the same connected acyclic graph, with no other operation
\* in between, changes no table and returns exactly the same (original,
\* reduced, percent) entries as the first run.
C29_SecondRunChangesNothing ==
    [][(pc = "done" /\ pc' = "again" /\ IsTree(nodes, edges)) =>
          /\ db' = db
          /\ reductions' = reductions]_vars

C29_Witness ==
    /\ pc = "again"
    /\ IsTree(nodes, edges)
    /\ Cardinality(nodes) = 4
    /\ Len(ops) = 6
    /\ \E t \in nodes : Count(db[t]) < table_sizes[t] /\ db[t] # EmptyTable
    /\ \E t \in nodes : \E k \in 1..Len(edges) :
          edges[k].cond = EquiCond(1, 2, 4, 2)

----------------------------------------------------------------------------
(* A batch of query files on one QueryReducer: main loads the data once    *)
(* and calls analyze_query for each file on the same connection.            *)

\* the tables as load_data_dynamic created them: under InitMain a table is
\* FoldTable or the one-row table, and the row count recorded in table_sizes
\* at load tells which
LoadedData ==
    [t \in DOMAIN table_sizes |->
        IF table_sizes[t] = Count(FoldTable) THEN FoldTable
        ELSE SetToTable({<<1, 1>>})]

\* fold_cyclic_graph run to its end from graph (ns, es) over backend d: the
\* results of the while loop, with status "folded" for a returned graph
RECURSIVE FoldAlone(_, _, _, _)
FoldAlone(ns, es, d, log) ==
    IF ~is_cyclic(ns, es) THEN {FoldResult(ns, es, d, log, "folded")}
    ELSE UNION {
             IF it.status = "folded"
             THEN FoldAlone(it.nodes, it.edges, it.db, it.ops)
             ELSE IF it.status = "break"
             THEN {FoldResult(it.nodes, it.edges, it.db, it.ops, "folded")}
             ELSE {it}
             : it \in FoldIterations(ns, es, d, log)}

\* the statistics analyze_query reports for query q when it is the only
\* query analysed over backend d with the sizes recorded at load
AloneReports(d, sizes, q) ==
    LET g == parse_join_graph(q)
    IN  IF g.nodes = {} THEN {}
        ELSE UNION {
                 IF f.status # "folded" THEN {}
                 ELSE LET r == compute_having_aware_reduction(f.db, sizes, q)
                      IN  IF UseEstimate(r) THEN {r.value}
                          ELSE {run.reductions :
                                  run \in StandardPath(f.db, sizes, q, f.nodes,
                                                       f.edges, g.aliases, f.ops)}
                 : f \in FoldAlone(g.nodes, g.edges, d, <<>>)}

\* C30: in a batch of queries analysed one after another on the same
\* connection, the statistics reported for a query are statistics that the
\* analysis of that query alone on the freshly loaded data reports: they do
\* not depend on the queries analysed before it.
C30_ReportIndependentOfEarlierQueries ==
    pc \in {"estimated", "reduced"} =>
        reductions \in AloneReports(LoadedData, table_sizes, query)

====
